---- MODULE Spec2Model ----
(***************************************************************************)
(* Model of the go-ini binding engine: decode.go (Unmarshal, decode,       *)
(* decodeStruct, decodeSlice, decodeMap and the scalar decoders), together *)
(* with the parse tree, the tag resolver and the encoder it is used with.  *)
(*                                                                         *)
(* Text is a sequence of one-character strings, so that parsing and        *)
(* formatting are computed character by character.  Intermediate results   *)
(* are passed as operator arguments (a local of the Go code is an argument *)
(* of the operator that models the code after its assignment).             *)
(***************************************************************************)
EXTENDS Integers, Sequences, FiniteSets, TLC

\* ------------------------------------------------------------------ bounds

\* Lines of INI text the parser reads before Unmarshal binds the tree.
MaxLines == 3

\* Elements per slice of scalars, and per slice of records, of a marshalled record.
MaxElems == 2
MaxRecs == 2

\* ------------------------------------------------------------------ text

Digits == <<"0", "1", "2", "3", "4", "5", "6", "7", "8", "9">>

IsDigit(c) == \E d \in 1..10 : Digits[d] = c

DigitVal(c) == (CHOOSE d \in 1..10 : Digits[d] = c) - 1

AllDigits(s) == \A k \in 1..Len(s) : IsDigit(s[k])

Tail2(s) == SubSeq(s, 2, Len(s))

RECURSIVE StripZeros(_)
StripZeros(s) ==
    IF Len(s) > 1 /\ s[1] = "0" THEN StripZeros(Tail2(s)) ELSE s

\* a < b for two digit texts of the same length
RECURSIVE LexLess(_, _)
LexLess(a, b) ==
    IF Len(a) = 0 THEN FALSE
    ELSE IF a[1] # b[1] THEN DigitVal(a[1]) < DigitVal(b[1])
    ELSE LexLess(Tail2(a), Tail2(b))

\* x > y for two digit texts without leading zeros
LongerOrGreater(x, y) == IF Len(x) # Len(y) THEN Len(x) > Len(y) ELSE LexLess(y, x)

\* the number denoted by digit text a exceeds the one denoted by digit text b
DigitsGreater(a, b) == LongerOrGreater(StripZeros(a), StripZeros(b))

RECURSIVE DigitsValue(_, _)
DigitsValue(s, acc) ==
    IF Len(s) = 0 THEN acc ELSE DigitsValue(Tail2(s), acc * 10 + DigitVal(s[1]))

\* 2^64 - 1 and 2^63, the limits strconv compares against, as digit text
MaxUint64Text ==
    <<"1","8","4","4","6","7","4","4","0","7","3","7","0","9","5","5","1","6","1","5">>

Cutoff64Text ==
    <<"9","2","2","3","3","7","2","0","3","6","8","5","4","7","7","5","8","0","8">>

NoNumber == [ok |-> FALSE, n |-> 0]

\* strconv.ParseUint(s, 10, 64): digits only, no sign, at most 2^64 - 1
ParseUint(s) ==
    IF Len(s) = 0 \/ ~AllDigits(s) THEN NoNumber
    ELSE IF DigitsGreater(s, MaxUint64Text) THEN NoNumber
    ELSE [ok |-> TRUE, n |-> DigitsValue(s, 0)]

\* ParseInt after the sign: the digits, and the range check against 2^63
ParseIntBody(neg, body) ==
    IF Len(body) = 0 \/ ~AllDigits(body) THEN NoNumber
    ELSE IF neg /\ DigitsGreater(body, Cutoff64Text) THEN NoNumber
    ELSE IF ~neg /\ ~DigitsGreater(Cutoff64Text, body) THEN NoNumber
    ELSE [ok |-> TRUE, n |-> IF neg THEN 0 - DigitsValue(body, 0) ELSE DigitsValue(body, 0)]

\* the text after an optional sign
Unsigned(s) == IF s[1] \in {"-", "+"} THEN Tail2(s) ELSE s

\* strconv.ParseInt(s, 10, 64): optional sign, digits, within [-2^63, 2^63 - 1]
ParseInt(s) == IF Len(s) = 0 THEN NoNumber ELSE ParseIntBody(s[1] = "-", Unsigned(s))

BoolTrueTexts ==
    { <<"1">>, <<"t">>, <<"T">>, <<"t","r","u","e">>, <<"T","R","U","E">>,
      <<"T","r","u","e">> }

BoolFalseTexts ==
    { <<"0">>, <<"f">>, <<"F">>, <<"f","a","l","s","e">>, <<"F","A","L","S","E">>,
      <<"F","a","l","s","e">> }

\* strconv.ParseBool
ParseBool(s) ==
    IF s \in BoolTrueTexts THEN [ok |-> TRUE, b |-> TRUE]
    ELSE IF s \in BoolFalseTexts THEN [ok |-> TRUE, b |-> FALSE]
    ELSE [ok |-> FALSE, b |-> FALSE]

\* position of the first occurrence of c in s, 0 when there is none
RECURSIVE IndexFrom(_, _, _)
IndexFrom(s, c, k) ==
    IF k > Len(s) THEN 0 ELSE IF s[k] = c THEN k ELSE IndexFrom(s, c, k + 1)

Index(s, c) == IndexFrom(s, c, 1)

\* A float is the decimal m * 10^e with m not a multiple of 10 (0 is m = 0, e = 0).
RECURSIVE NormFloat(_, _)
NormFloat(m, e) ==
    IF m = 0 THEN [m |-> 0, e |-> 0]
    ELSE IF m % 10 = 0 THEN NormFloat(m \div 10, e + 1)
    ELSE [m |-> m, e |-> e]

NoFloat == [ok |-> FALSE, f |-> [m |-> 0, e |-> 0]]

Negate(neg, n) == IF neg THEN 0 - n ELSE n

\* ParseFloat on the integer part ip and the fraction part fp
ParseFloatParts(neg, ip, fp) ==
    IF Len(ip) + Len(fp) = 0 \/ ~AllDigits(ip) \/ ~AllDigits(fp) THEN NoFloat
    ELSE [ok |-> TRUE, f |-> NormFloat(Negate(neg, DigitsValue(ip \o fp, 0)), 0 - Len(fp))]

\* ParseFloat after the sign, dot the position of the decimal point
ParseFloatBody(neg, body, dot) ==
    IF dot = 0 THEN ParseFloatParts(neg, body, <<>>)
    ELSE ParseFloatParts(neg, SubSeq(body, 1, dot - 1), SubSeq(body, dot + 1, Len(body)))

ParseFloatSigned(neg, body) == ParseFloatBody(neg, body, Index(body, "."))

\* strconv.ParseFloat(s, 64) on plain decimal text: sign, digits, optional fraction
ParseFloat(s) == IF Len(s) = 0 THEN NoFloat ELSE ParseFloatSigned(s[1] = "-", Unsigned(s))

\* strconv.FormatUint(n, 10)
RECURSIVE FormatUint(_)
FormatUint(n) ==
    IF n < 10 THEN << Digits[n + 1] >>
    ELSE Append(FormatUint(n \div 10), Digits[(n % 10) + 1])

\* strconv.FormatInt(n, 10)
FormatInt(n) == IF n < 0 THEN <<"-">> \o FormatUint(0 - n) ELSE FormatUint(n)

\* strconv.FormatBool
FormatBool(b) == IF b THEN <<"t","r","u","e">> ELSE <<"f","a","l","s","e">>

Zeros(n) == [k \in 1..n |-> "0"]

\* digits d with the decimal point before the last n of them
PointBefore(d, n) == SubSeq(d, 1, Len(d) - n) \o <<".">> \o SubSeq(d, Len(d) - n + 1, Len(d))

\* the digits of a magnitude with e decimals (e < 0), zero-padded to hold them
Padded(mag, e) == IF Len(mag) > 0 - e THEN mag ELSE Zeros(1 - e - Len(mag)) \o mag

FormatMagnitude(mag, e) ==
    IF e >= 0 THEN mag \o Zeros(e) ELSE PointBefore(Padded(mag, e), 0 - e)

\* strconv.FormatFloat(f, 'f', -1, 64): the shortest decimal that reads back as f
FormatFloat(f) ==
    IF f.m < 0 THEN <<"-">> \o FormatMagnitude(FormatUint(0 - f.m), f.e)
    ELSE FormatMagnitude(FormatUint(f.m), f.e)

\* ------------------------------------------------------------------ names

ININame      == <<"I","N","I","N","a","m","e">>
DatabaseName == <<"D","a","t","a","b","a","s","e">>
ServersName  == <<"S","e","r","v","e","r","s">>
ServerName   == <<"S","e","r","v","e","r">>
AllName      == <<"A","l","l">>
PortName     == <<"P","o","r","t">>
SizeName     == <<"S","i","z","e">>
Wildcard     == <<"*">>
Dash         == <<"-">>
Empty        == <<>>

\* ------------------------------------------------------------------ Go types

IntKinds   == {"int", "int8", "int16", "int32", "int64"}
UintKinds  == {"uint", "uint8", "uint16", "uint32", "uint64"}
FloatKinds == {"float32", "float64"}

IsScalarKind(k) ==
    k = "string" \/ k \in IntKinds \/ k \in UintKinds \/ k \in FloatKinds \/ k = "bool"

Scalar(k)   == [kind |-> k]
SliceOf(t)  == [kind |-> "slice", elem |-> t]
MapOf(t)    == [kind |-> "map", elem |-> t]
StructOf(f) == [kind |-> "struct", fields |-> f]

\* a struct field: its declared name, the name and omitempty parts of its ini tag
Field(n, tg, oe, t) == [name |-> n, tag |-> tg, omitempty |-> oe, type |-> t]

\* width in bits of an integer kind (int and uint are 64 bits wide)
Bits(k) ==
    CASE k \in {"int8", "uint8"}   -> 8
      [] k \in {"int16", "uint16"} -> 16
      [] k \in {"int32", "uint32"} -> 32
      [] OTHER                     -> 64

RECURSIVE Pow2(_)
Pow2(n) == IF n = 0 THEN 1 ELSE 2 * Pow2(n - 1)

\* n converted to a signed integer of w bits: its low w bits
Truncate(n, half) == ((n + half) % (2 * half)) - half

\* reflect.Value.SetInt: the int64 is converted to the field's width, which keeps
\* its low bits. (The numbers of the model stay below 2^31, so a width of 32 or
\* more keeps them whole.)
SetInt(k, n) == IF Bits(k) >= 32 THEN n ELSE Truncate(n, Pow2(Bits(k) - 1))

\* reflect.Value.SetUint
SetUint(k, n) == IF Bits(k) >= 32 THEN n ELSE n % Pow2(Bits(k))

NilMap == [isnil |-> TRUE, kv |-> <<>>]

\* the zero value of a type
RECURSIVE Zero(_)
Zero(t) ==
    CASE t.kind = "string"     -> Empty
      [] t.kind \in IntKinds   -> 0
      [] t.kind \in UintKinds  -> 0
      [] t.kind \in FloatKinds -> [m |-> 0, e |-> 0]
      [] t.kind = "bool"       -> FALSE
      [] t.kind = "slice"      -> <<>>
      [] t.kind = "map"        -> NilMap
      [] t.kind = "struct"     -> [k \in 1..Len(t.fields) |-> Zero(t.fields[k].type)]

\* ------------------------------------------------------------------ parse tree

NewSection(n) == [name |-> n, props |-> <<>>]

NewTree == [global |-> NewSection(Empty), sections |-> <<>>]

NewProperty(key) == [key |-> key, vals |-> <<>>]

\* position of the entry of an ordered mapping whose key is x, 0 when there is none
KeyIndex(seq, x) ==
    IF \E k \in 1..Len(seq) : seq[k].key = x
    THEN CHOOSE k \in 1..Len(seq) : seq[k].key = x
    ELSE 0

\* every section instance, in tree order
RECURSIVE Concat(_)
Concat(groups) ==
    IF Len(groups) = 0 THEN <<>> ELSE groups[1].insts \o Concat(Tail(groups))

InstsAt(groups, k) == IF k = 0 THEN <<>> ELSE groups[k].insts

\* parseTree.get: the instances of the named section, every section for "*"
TreeGet(tree, name) ==
    IF name = Wildcard THEN Concat(tree.sections)
    ELSE InstsAt(tree.sections, KeyIndex(tree.sections, name))

PropertyAt(props, k, name) == IF k = 0 THEN NewProperty(name) ELSE props[k]

\* section.get: the property of that key, an empty property when there is none
SectionGet(s, name) == PropertyAt(s.props, KeyIndex(s.props, name), name)

ValuesAt(vals, k) == IF k = 0 THEN <<>> ELSE vals[k].vs

\* property.get: the raw values under a map key, none when the key is absent
PropGet(p, mkey) == ValuesAt(p.vals, KeyIndex(p.vals, mkey))

PropAddAt(p, k, mkey, val) ==
    IF k = 0
    THEN [p EXCEPT !.vals = Append(@, [key |-> mkey, vs |-> <<val>>])]
    ELSE [p EXCEPT !.vals[k].vs = Append(@, val)]

\* property.add: one more raw value under a map key, in source order
PropAdd(p, mkey, val) == PropAddAt(p, KeyIndex(p.vals, mkey), mkey, val)

SectionAddAt(s, k, key, mkey, val) ==
    IF k = 0
    THEN [s EXCEPT !.props = Append(@, PropAdd(NewProperty(key), mkey, val))]
    ELSE [s EXCEPT !.props[k] = PropAdd(@, mkey, val)]

\* section.add: a property line key[mkey]=val read into a section
SectionAdd(s, key, mkey, val) == SectionAddAt(s, KeyIndex(s.props, key), key, mkey, val)

TreeAddSectionAt(tree, k, name) ==
    IF k = 0
    THEN [tree EXCEPT !.sections = Append(@, [key |-> name, insts |-> <<NewSection(name)>>])]
    ELSE [tree EXCEPT !.sections[k].insts = Append(@, NewSection(name))]

\* parseTree.add: a section header opens a new instance under its name
TreeAddSection(tree, name) == TreeAddSectionAt(tree, KeyIndex(tree.sections, name), name)

\* the tag of a struct field: the tag's name, or the declared name without one
newTag(sf) ==
    [name |-> IF sf.tag = Empty THEN sf.name ELSE sf.tag, omitempty |-> sf.omitempty]

\* ------------------------------------------------------------------ parser

\* The parser's state: the tree and the section it is in, <<group, instance>>
\* (<<0, 0>> before the first header: the global section).
NewParser == [tree |-> NewTree, cur |-> <<0, 0>>]

InLast(t, g) == [tree |-> t, cur |-> <<g, Len(t.sections[g].insts)>>]

InSection(t, name) == InLast(t, KeyIndex(t.sections, name))

\* a section header line [name]
ReadSection(p, name) == InSection(TreeAddSection(p.tree, name), name)

\* a property line key=val or key[mkey]=val, read into the current section
ReadProperty(p, key, mkey, val) ==
    [p EXCEPT !.tree =
        IF p.cur[1] = 0
        THEN [@ EXCEPT !.global = SectionAdd(@, key, mkey, val)]
        ELSE [@ EXCEPT !.sections[p.cur[1]].insts[p.cur[2]] = SectionAdd(@, key, mkey, val)]]

RECURSIVE SplitLines(_)
SplitAt(text, k) ==
    IF k = 0 THEN << text >>
    ELSE << SubSeq(text, 1, k - 1) >> \o SplitLines(SubSeq(text, k + 1, Len(text)))

\* the lines of a text: the pieces between newlines
SplitLines(text) == SplitAt(text, Index(text, "\n"))

Failed(p) == [p EXCEPT !.ok = FALSE]

\* key=value, or key[subkey]=value when the key part holds a bracket at br
ReadKeyValue(p, lhs, br, val) ==
    IF br = 0 THEN [ok |-> TRUE, st |-> ReadProperty(p.st, lhs, Empty, val)]
    ELSE IF br > 1 /\ lhs[Len(lhs)] = "]"
    THEN [ok |-> TRUE,
          st |-> ReadProperty(p.st, SubSeq(lhs, 1, br - 1),
                              SubSeq(lhs, br + 1, Len(lhs) - 1), val)]
    ELSE Failed(p)

ReadAssignment(p, lhs, val) == ReadKeyValue(p, lhs, Index(lhs, "["), val)

\* a line that is no header: the text is split at its first "="
ReadPropertyLine(p, line, eq) ==
    IF eq <= 1 THEN Failed(p)
    ELSE ReadAssignment(p, SubSeq(line, 1, eq - 1), SubSeq(line, eq + 1, Len(line)))

\* one line of INI text: [name], key=value or key[subkey]=value; an empty line
\* is skipped, anything else is a parse error
ReadLine(p, line) ==
    IF ~p.ok \/ Len(line) = 0 THEN p
    ELSE IF line[1] = "[" THEN
        IF line[Len(line)] = "]"
        THEN [ok |-> TRUE, st |-> ReadSection(p.st, SubSeq(line, 2, Len(line) - 1))]
        ELSE Failed(p)
    ELSE ReadPropertyLine(p, line, Index(line, "="))

RECURSIVE ReadLines(_, _)
ReadLines(p, lines) ==
    IF Len(lines) = 0 THEN p ELSE ReadLines(ReadLine(p, lines[1]), Tail(lines))

\* parser.parse: the tree of a text, and whether the text parsed
ParseText(text) == ReadLines([ok |-> TRUE, st |-> NewParser], SplitLines(text))

\* ------------------------------------------------------------------ encoder

\* the text of a scalar value
encodeScalar(t, v) ==
    CASE t.kind = "string"     -> v
      [] t.kind \in IntKinds   -> FormatInt(v)
      [] t.kind \in UintKinds  -> FormatUint(v)
      [] t.kind \in FloatKinds -> FormatFloat(v)
      [] t.kind = "bool"       -> FormatBool(v)

\* one property value per element of a slice field
RECURSIVE encodeElems(_, _, _, _)
encodeElems(s, key, t, v) ==
    IF Len(v) = 0 THEN s
    ELSE encodeElems(SectionAdd(s, key, Empty, encodeScalar(t.elem, v[1])), key, t, Tail(v))

\* zero-valued fields left out whether marked omitempty or not
OmittedWhenZero(sf, v) == v = Zero(sf.type)

\* a zero-valued field marked omitempty is left out
Omitted(sf, v) == newTag(sf).omitempty /\ v = Zero(sf.type)

\* a field that binds in neither direction, or is left out of the output
NotEncoded(sf, v) == newTag(sf).name = Dash \/ Omitted(sf, v)

\* one field of a record as properties of its section: a scalar as key=value, a
\* slice of scalars as one key=value per element; "-" fields, the ININame field,
\* nested records and record slices add no property
encodeField(s, sf, v) ==
    IF NotEncoded(sf, v) \/ sf.name = ININame THEN s
    ELSE IF IsScalarKind(sf.type.kind) THEN
        SectionAdd(s, newTag(sf).name, Empty, encodeScalar(sf.type, v))
    ELSE IF sf.type.kind = "slice" /\ IsScalarKind(sf.type.elem.kind) THEN
        encodeElems(s, newTag(sf).name, sf.type, v)
    ELSE s

RECURSIVE encodeFields(_, _, _, _)
encodeFields(s, t, v, k) ==
    IF k > Len(t.fields) THEN s
    ELSE encodeFields(encodeField(s, t.fields[k], v[k]), t, v, k + 1)

\* position of the ININame field of a record type, 0 when it has none
OriginField(t) ==
    IF \E j \in 1..Len(t.fields) : t.fields[j].name = ININame
    THEN CHOOSE j \in 1..Len(t.fields) : t.fields[j].name = ININame
    ELSE 0

SectionNameAt(sf, t, v, k) ==
    IF k > 0 /\ t.fields[k].type.kind = "string" /\ v[k] # Empty
    THEN v[k] ELSE newTag(sf).name

\* the section name of a nested record: its ININame value when it has one that
\* is not empty, the field's resolved name otherwise
SectionNameOf(sf, t, v) == SectionNameAt(sf, t, v, OriginField(t))

\* the properties of a record written into the section the header opened
FillSection(q, t, v) ==
    [q EXCEPT !.tree.sections[q.cur[1]].insts[q.cur[2]] = encodeFields(@, t, v, 1)]

\* a nested record as one section: the header, then its properties
encodeSection(p, sf, t, v) == FillSection(ReadSection(p, SectionNameOf(sf, t, v)), t, v)

RECURSIVE encodeSections(_, _, _)
encodeSections(p, sf, v) ==
    IF Len(v) = 0 THEN p
    ELSE encodeSections(encodeSection(p, sf, sf.type.elem, v[1]), sf, Tail(v))

\* the sections of one top-level field
encodeTopField(p, sf, v) ==
    IF NotEncoded(sf, v) THEN p
    ELSE IF sf.type.kind = "struct" THEN encodeSection(p, sf, sf.type, v)
    ELSE IF sf.type.kind = "slice" /\ sf.type.elem.kind = "struct"
         THEN encodeSections(p, sf, v)
    ELSE p

\* the sections of the top-level fields, in declared order
RECURSIVE encodeTop(_, _, _, _)
encodeTop(p, t, v, k) ==
    IF k > Len(t.fields) THEN p
    ELSE encodeTop(encodeTopField(p, t.fields[k], v[k]), t, v, k + 1)

\* encode: the parse tree of a record
encode(t, v) ==
    encodeTop([tree |-> [NewTree EXCEPT !.global = encodeFields(@, t, v, 1)],
               cur |-> <<0, 0>>], t, v, 1).tree

\* the left-hand side of a property line: key, or key[subkey]
renderKey(key, mkey) == IF mkey = Empty THEN key ELSE key \o <<"[">> \o mkey \o <<"]">>

\* the lines of a property: one per raw value
RECURSIVE renderValues(_, _, _)
renderValues(key, mkey, vs) ==
    IF Len(vs) = 0 THEN <<>>
    ELSE << renderKey(key, mkey) \o <<"=">> \o vs[1] >> \o renderValues(key, mkey, Tail(vs))

RECURSIVE renderProperty(_, _)
renderProperty(key, vals) ==
    IF Len(vals) = 0 THEN <<>>
    ELSE renderValues(key, vals[1].key, vals[1].vs) \o renderProperty(key, Tail(vals))

RECURSIVE renderProps(_)
renderProps(props) ==
    IF Len(props) = 0 THEN <<>>
    ELSE renderProperty(props[1].key, props[1].vals) \o renderProps(Tail(props))

RECURSIVE renderSections(_)
renderSections(secs) ==
    IF Len(secs) = 0 THEN <<>>
    ELSE << <<"[">> \o secs[1].name \o <<"]">> >> \o renderProps(secs[1].props)
         \o renderSections(Tail(secs))

\* lines joined by single newlines, none after the last
RECURSIVE Join(_)
Join(lines) ==
    IF Len(lines) = 0 THEN <<>>
    ELSE IF Len(lines) = 1 THEN lines[1]
    ELSE lines[1] \o <<"\n">> \o Join(Tail(lines))

\* the text of a tree: the global properties, then every section
Render(tr) == Join(renderProps(tr.global.props) \o renderSections(Concat(tr.sections)))

\* Marshal: the INI text of a record
Marshal(t, v) == Render(encode(t, v))

\* ------------------------------------------------------------------ decode.go

\* The outcome of binding a value: st is "ok" (nil error), "err" (an
\* *UnmarshalTypeError is returned) or "panic" (a run-time panic unwinds the
\* call); val is what the destination holds afterwards; fld is the index of the
\* struct field at which a struct binding stopped (0: not inside a struct).
Ok(v)      == [st |-> "ok", val |-> v, fld |-> 0]
TypeErr(v) == [st |-> "err", val |-> v, fld |-> 0]
Panic(v)   == [st |-> "panic", val |-> v, fld |-> 0]

\* decodeString: the raw text is stored verbatim
decodeString(i, t, v) == Ok(i)

StoreInt(r, t, v) == IF ~r.ok THEN TypeErr(v) ELSE Ok(SetInt(t.kind, r.n))

\* decodeInt: ParseInt at 64 bits, then SetInt into the field
decodeInt(i, t, v) == StoreInt(ParseInt(i), t, v)

StoreUint(r, t, v) == IF ~r.ok THEN TypeErr(v) ELSE Ok(SetUint(t.kind, r.n))

\* decodeUint: ParseUint at 64 bits, then SetUint into the field
decodeUint(i, t, v) == StoreUint(ParseUint(i), t, v)

StoreBool(r, v) == IF ~r.ok THEN TypeErr(v) ELSE Ok(r.b)

\* decodeBool
decodeBool(i, t, v) == StoreBool(ParseBool(i), v)

StoreFloat(r, v) == IF ~r.ok THEN TypeErr(v) ELSE Ok(r.f)

\* decodeFloat
decodeFloat(i, t, v) == StoreFloat(ParseFloat(i), v)

\* the scalar decoder the kind switches of decodeStruct, decodeSlice and
\* decodeMap select
decodeScalar(i, t, v) ==
    CASE t.kind = "string"     -> decodeString(i, t, v)
      [] t.kind \in IntKinds   -> decodeInt(i, t, v)
      [] t.kind \in UintKinds  -> decodeUint(i, t, v)
      [] t.kind \in FloatKinds -> decodeFloat(i, t, v)
      [] t.kind = "bool"       -> decodeBool(i, t, v)

\* what MakeSlice builds before decodeSlice fills it
MakeSlice(t, n) == [k \in 1..n |-> Zero(t.elem)]

\* what MakeMap builds before decodeMap fills it
MakeMap == [isnil |-> FALSE, kv |-> <<>>]

\* SetMapIndex
SetMapIndex(vv, key, val) ==
    [vv EXCEPT !.kv = [x \in DOMAIN vv.kv \cup {key} |-> IF x = key THEN val ELSE vv.kv[x]]]

\* rv set to the elements bound so far when an element fails
SliceResultPartial(r, vv, rv) == IF r.st = "ok" THEN Ok(vv) ELSE [r EXCEPT !.val = vv, !.fld = 0]

\* the end of decodeSlice: rv.Set(vv) after the last element, or the error of
\* the first element that fails, returned before rv is set
SliceResult(r, vv, rv) == IF r.st = "ok" THEN Ok(vv) ELSE [r EXCEPT !.val = rv, !.fld = 0]

\* the end of decodeMap, likewise
MapResult(r, vv, rv) == IF r.st = "ok" THEN Ok(vv) ELSE [r EXCEPT !.val = rv, !.fld = 0]

\* the raw value decodeMap hands to the element decoder: every value of the map
\* key for a slice element type, the first one otherwise
MapEntryVal(t, vs) == IF t.elem.kind = "slice" THEN vs ELSE vs[1]

RECURSIVE decodeMapFrom(_, _, _, _, _)

\* decodeMap's loop after the element decoder returned r for entry k
decodeMapStep(p, t, rv, vv, k, r) ==
    IF r.st # "ok" THEN MapResult(r, vv, rv)
    ELSE decodeMapFrom(p, t, rv, SetMapIndex(vv, p.vals[k].key, r.val), k + 1)

\* decodeMap's loop over the property's map keys, from entry k on. (Go ranges
\* over p.vals in no fixed order; the map built and whether an entry fails do
\* not depend on the order.)
decodeMapFrom(p, t, rv, vv, k) ==
    IF k > Len(p.vals) THEN MapResult(Ok(vv), vv, rv)
    ELSE IF t.elem.kind # "slice" /\ Len(p.vals[k].vs) = 0 THEN Panic(rv)
    ELSE decodeMapStep(p, t, rv, vv, k,
                       decodeScalar(MapEntryVal(t, p.vals[k].vs), t.elem, Zero(t.elem)))

\* decodeMap: only scalar element kinds have a decoder
decodeMap(p, t, rv) ==
    IF ~IsScalarKind(t.elem.kind) THEN TypeErr(rv)
    ELSE decodeMapFrom(p, t, rv, MakeMap, 1)

RECURSIVE decodeStructFrom(_, _, _, _)
RECURSIVE decodeSliceFrom(_, _, _, _, _)

\* decodeSlice on the first raw value alone
decodeSliceFirst(v, t, rv) ==
    IF ~(IsScalarKind(t.elem.kind) \/ t.elem.kind = "struct") THEN TypeErr(rv)
    ELSE decodeSliceFrom(<< v[1] >>, t, rv, MakeSlice(t, 1), 1)

\* decodeSlice: one element per entry of v, converted in order
decodeSlice(v, t, rv) ==
    IF ~(IsScalarKind(t.elem.kind) \/ t.elem.kind = "struct") THEN TypeErr(rv)
    ELSE decodeSliceFrom(v, t, rv, MakeSlice(t, Len(v)), 1)

\* an origin-name test that never holds
IsOriginNameNever(sf) == FALSE

\* the string field that receives the section's own name
IsOriginName(sf) == sf.name = ININame

\* decodeStruct's switch on the kind of field sf, prop the property of its name
\* and vals the property's plain values
decodeKind(s, sf, v, prop, vals) ==
    IF sf.type.kind = "slice" THEN
        IF sf.type.elem.kind = "struct" THEN Ok(v)
        ELSE IF Len(vals) = 0 THEN Ok(v)
        ELSE decodeSlice(vals, sf.type, v)
    ELSE IF sf.type.kind = "map" THEN
        IF sf.type.elem.kind = "struct" THEN Ok(v)
        ELSE decodeMap(prop, sf.type, v)
    ELSE IF sf.type.kind = "string" /\ IsOriginName(sf) THEN decodeString(s.name, sf.type, v)
    ELSE IF IsScalarKind(sf.type.kind) THEN
        IF Len(prop.vals) = 0 THEN Ok(v)
        ELSE IF Len(vals) = 0 THEN Panic(v)
        ELSE decodeScalar(vals[1], sf.type, v)
    ELSE Ok(v)

decodeProperty(s, sf, v, prop) == decodeKind(s, sf, v, prop, PropGet(prop, Empty))

\* one field of decodeStruct's loop: the tag, then the switch on the field's kind
decodeField(s, sf, v) ==
    IF newTag(sf).name = Dash THEN Ok(v)
    ELSE decodeProperty(s, sf, v, SectionGet(s, newTag(sf).name))

\* decodeStruct's loop after field k was bound with outcome r
decodeStructStep(s, t, v, k, r) ==
    IF r.st # "ok" THEN [st |-> r.st, val |-> [v EXCEPT ![k] = r.val], fld |-> k]
    ELSE decodeStructFrom(s, t, [v EXCEPT ![k] = r.val], k + 1)

\* decodeStruct's loop from field k on
decodeStructFrom(s, t, v, k) ==
    IF k > Len(t.fields) THEN Ok(v)
    ELSE decodeStructStep(s, t, v, k, decodeField(s, t.fields[k], v[k]))

\* decodeStruct: the fields of the struct in declared order
decodeStruct(s, t, v) == decodeStructFrom(s, t, v, 1)

\* elements left as MakeSlice built them
decodeElemSkip(i, t, v) == Ok(v)

\* the decoder decodeSlice's kind switch selects for its elements
decodeElem(i, t, v) ==
    IF t.kind = "struct" THEN decodeStruct(i, t, v) ELSE decodeScalar(i, t, v)

\* decodeSlice's loop after element k was bound with outcome r
decodeSliceStep(v, t, rv, vv, k, r) ==
    IF r.st # "ok" THEN SliceResult(r, [vv EXCEPT ![k] = r.val], rv)
    ELSE decodeSliceFrom(v, t, rv, [vv EXCEPT ![k] = r.val], k + 1)

\* decodeSlice's loop from element k on
decodeSliceFrom(v, t, rv, vv, k) ==
    IF k > Len(v) THEN SliceResult(Ok(vv), vv, rv)
    ELSE decodeSliceStep(v, t, rv, vv, k, decodeElem(v[k], t.elem, vv[k]))

\* decode's switch on the kind of top-level field sf, secs the sections of its name
decodeTopKind(sf, v, secs) ==
    IF sf.type.kind = "struct" THEN
        IF Len(secs) = 0 THEN Ok(v) ELSE decodeStruct(secs[1], sf.type, v)
    ELSE IF sf.type.kind = "slice" THEN
        IF sf.type.elem.kind # "struct" THEN Ok(v)
        ELSE IF Len(secs) = 0 THEN Ok(v)
        ELSE decodeSlice(secs, sf.type, v)
    ELSE Ok(v)

\* one round of decode's loop over the fields of the destination
decodeTopField(tr, sf, v) ==
    IF newTag(sf).name = Dash THEN Ok(v)
    ELSE decodeTopKind(sf, v, TreeGet(tr, newTag(sf).name))

\* the error decode ends with
ErrName(st) == IF st = "panic" THEN "panic" ELSE "UnmarshalTypeError"

\* ------------------------------------------------------------------ inputs

\* The raw values the input text may hold: a small number, a number that fits 16
\* bits but not 8, and text that is no number.
RawValues == { <<"1">>, <<"3","0","0">>, <<"x">> }

\* The map keys of the input: none (key=value) or one (key[a]=value).
MapKeys == { Empty, <<"a">> }

\* The property lines of the input: Port=v, Port[a]=v and Size=v.
PropertyLines ==
    { <<PortName, m, v>> : m \in MapKeys, v \in RawValues }
    \cup { <<SizeName, Empty, v>> : v \in RawValues }

SectionNames == { DatabaseName, ServersName }

\* The types of the field named Port.
FieldTypes ==
    { Scalar("string"), Scalar("int8"), Scalar("int16"), Scalar("int"),
      Scalar("uint8"), Scalar("float64"), Scalar("bool"),
      SliceOf(Scalar("int8")), MapOf(Scalar("int8")),
      MapOf(SliceOf(Scalar("string"))) }

\* type database struct { ININame string; Port K; Size int8 }
database(K) ==
    StructOf(<< Field(ININame, Empty, FALSE, Scalar("string")),
                Field(PortName, Empty, FALSE, K),
                Field(SizeName, Empty, FALSE, Scalar("int8")) >>)

\* struct { Port K; Database database; Servers []database;
\*          All []database `ini:"*"`; Size int8 }
Config(K) ==
    StructOf(<< Field(PortName, Empty, FALSE, K),
                Field(DatabaseName, Empty, FALSE, database(K)),
                Field(ServersName, Empty, FALSE, SliceOf(database(K))),
                Field(AllName, Wildcard, FALSE, SliceOf(database(K))),
                Field(SizeName, Empty, FALSE, Scalar("int8")) >>)

\* a value of the type that differs from its zero value: what a record that was
\* filled before the call holds
RECURSIVE Prior(_)
Prior(t) ==
    CASE t.kind = "string"     -> <<"o">>
      [] t.kind \in IntKinds   -> 7
      [] t.kind \in UintKinds  -> 7
      [] t.kind \in FloatKinds -> [m |-> 7, e |-> 0]
      [] t.kind = "bool"       -> TRUE
      [] t.kind = "slice"      -> << Prior(t.elem) >>
      [] t.kind = "map"        -> [isnil |-> FALSE, kv |-> [x \in {<<"z">>} |-> Prior(t.elem)]]
      [] t.kind = "struct"     -> [k \in 1..Len(t.fields) |-> Prior(t.fields[k].type)]

\* The values Unmarshal may be handed as v: nil, a struct passed by value, a
\* pointer to something that is no struct, a nil struct pointer, and a pointer
\* to a struct that is fresh (zero) or was filled before.
Destinations ==
    { [kind |-> "nil"] }
    \cup { [kind |-> "struct", type |-> Config(Scalar("int8"))] }
    \cup { [kind |-> "ptr", isnil |-> FALSE, type |-> Scalar("int8")] }
    \cup { [kind |-> "ptr", isnil |-> TRUE, type |-> Config(Scalar("int8"))] }
    \cup { [kind |-> "ptr", isnil |-> FALSE, type |-> Config(K), fresh |-> f] :
             K \in FieldTypes, f \in BOOLEAN }

\* ------------------------------------------------------------------ state

VARIABLES
    tree,    \* the parse tree read so far
    cur,     \* the section the parser is in: <<group, instance>>, <<0, 0>> for global
    nlines,  \* lines read
    pc,      \* "marshal", "text", "parse", "sections" (decode's loop) or "done"
    rv,      \* the destination handed to Unmarshal
    dest,    \* the record v points to
    orig,    \* the record as it was when Unmarshal was called
    idx,     \* decode's loop index (1-based)
    err,     \* the outcome: "" (running), "nil", "UnmarshalTypeError", "panic"
    fail,    \* where binding stopped: pass, top-level field, field inside it
    src,     \* the record handed to Marshal
    text     \* the text Marshal returned

vars == <<tree, cur, nlines, pc, rv, dest, orig, idx, err, fail, src, text>>

NoFail == [pass |-> "none", top |-> 0, inner |-> 0]

Init ==
    /\ tree = NewTree
    /\ cur = <<0, 0>>
    /\ nlines = 0
    /\ pc = "parse"
    /\ rv = [kind |-> "nil"]
    /\ dest = <<>>
    /\ orig = <<>>
    /\ idx = 0
    /\ err = ""
    /\ fail = NoFail
    /\ src = <<>>
    /\ text = <<>>

\* the parser's state after a line, stored
ParserStep(p) == tree' = p.tree /\ cur' = p.cur

\* parser: a section header line [name]
ParseSection(name) ==
    /\ pc = "parse"
    /\ nlines < MaxLines
    /\ ParserStep(ReadSection([tree |-> tree, cur |-> cur], name))
    /\ nlines' = nlines + 1
    /\ UNCHANGED <<pc, rv, dest, orig, idx, err, fail, src, text>>

\* parser: a property line key=val or key[mkey]=val
ParseProperty(key, mkey, val) ==
    /\ pc = "parse"
    /\ nlines < MaxLines
    /\ ParserStep(ReadProperty([tree |-> tree, cur |-> cur], key, mkey, val))
    /\ nlines' = nlines + 1
    /\ UNCHANGED <<pc, rv, dest, orig, idx, err, fail, src, text>>

\* the record v points to when Unmarshal is called
Before(v) == IF v.fresh THEN Zero(v.type) ELSE Prior(v.type)

\* decode after the global properties were bound with outcome r
GlobalBound(before, r) ==
    /\ orig' = before
    /\ dest' = r.val
    /\ IF r.st = "ok"
       THEN /\ pc' = "sections"
            /\ idx' = 1
            /\ UNCHANGED <<err, fail>>
       ELSE /\ pc' = "done"
            /\ err' = ErrName(r.st)
            /\ fail' = [pass |-> "global", top |-> r.fld, inner |-> 0]
            /\ UNCHANGED idx

\* decode up to its loop: the checks of the destination, then the global
\* properties bound by decodeStruct
decodeEntry(tr, v) ==
    /\ rv' = v
    /\ IF v.kind = "nil" \/ (v.kind = "ptr" /\ v.isnil) THEN
           \* rv.Type() of the zero reflect.Value panics
           /\ err' = "panic"
           /\ pc' = "done"
           /\ UNCHANGED <<dest, orig, idx, fail>>
       ELSE IF v.kind # "ptr" \/ v.type.kind # "struct" THEN
           /\ err' = "UnmarshalTypeError"
           /\ pc' = "done"
           /\ UNCHANGED <<dest, orig, idx, fail>>
       ELSE GlobalBound(Before(v), decodeStruct(tr.global, v.type, Before(v)))

\* Unmarshal of the text read so far into v
Unmarshal(v) ==
    /\ pc = "parse"
    /\ decodeEntry(tree, v)
    /\ UNCHANGED <<tree, cur, nlines, src, text>>

\* decode's loop after top-level field idx was bound with outcome r
SectionBound(r) ==
    /\ dest' = [dest EXCEPT ![idx] = r.val]
    /\ IF r.st = "ok"
       THEN /\ idx' = idx + 1
            /\ UNCHANGED <<pc, err, fail>>
       ELSE /\ pc' = "done"
            /\ err' = ErrName(r.st)
            /\ fail' = [pass |-> "section", top |-> idx, inner |-> r.fld]
            /\ UNCHANGED idx

\* one round of decode's loop over the fields of the destination
DecodeSectionField ==
    /\ pc = "sections"
    /\ idx <= Len(rv.type.fields)
    /\ SectionBound(decodeTopField(tree, rv.type.fields[idx], dest[idx]))
    /\ UNCHANGED <<tree, cur, nlines, rv, orig, src, text>>

\* decode returns nil after the last field
Return ==
    /\ pc = "sections"
    /\ idx > Len(rv.type.fields)
    /\ pc' = "done"
    /\ err' = "nil"
    /\ UNCHANGED <<tree, cur, nlines, rv, dest, orig, idx, fail, src, text>>

Next ==
    \/ \E name \in SectionNames : ParseSection(name)
    \/ \E l \in PropertyLines : ParseProperty(l[1], l[2], l[3])
    \/ \E v \in Destinations : Unmarshal(v)
    \/ DecodeSectionField
    \/ Return

Spec == Init /\ [][Next]_vars

\* ------------------------------------------------------------------ round trip

\* slices of at most n elements of S
SeqsUpTo(S, n) == UNION { [1..k -> S] : k \in 0..n }

TestServer == <<"1","9","2",".","0",".","2",".","6","2">>

\* type database struct { Server string; Port int; Encrypted bool; Size uint;
\*                        Value float64 } and struct { Database database }
TestDatabase ==
    StructOf(<< Field(ServerName, Empty, FALSE, Scalar("string")),
                Field(PortName, Empty, FALSE, Scalar("int")),
                Field(<<"E","n","c","r","y","p","t","e","d">>, Empty, FALSE, Scalar("bool")),
                Field(SizeName, Empty, FALSE, Scalar("uint")),
                Field(<<"V","a","l","u","e">>, Empty, FALSE, Scalar("float64")) >>)

TestType == StructOf(<< Field(DatabaseName, Empty, FALSE, TestDatabase) >>)

\* the input of TestMarshal
TestInput == << << TestServer, 143, FALSE, 1234, [m |-> 1234, e |-> -2] >> >>

\* what TestMarshal wants
TestWant ==
    << "[","D","a","t","a","b","a","s","e","]","\n",
       "S","e","r","v","e","r","=","1","9","2",".","0",".","2",".","6","2","\n",
       "P","o","r","t","=","1","4","3","\n",
       "E","n","c","r","y","p","t","e","d","=","f","a","l","s","e","\n",
       "S","i","z","e","=","1","2","3","4","\n",
       "V","a","l","u","e","=","1","2",".","3","4" >>

TestValues ==
    { << << s, p, b, u, f >> >> :
        s \in {TestServer, Empty}, p \in {143, 0 - 7}, b \in BOOLEAN, u \in {1234, 0},
        f \in {[m |-> 1234, e |-> 0 - 2], [m |-> 0, e |-> 0], [m |-> 0 - 5, e |-> 1]} }

Int8Values == {0, 5, 0 - 3}

\* type server struct { Port int8 }
ServerType == StructOf(<< Field(PortName, Empty, FALSE, Scalar("int8")) >>)

\* type plain struct { Server string `ini:",omitempty"`; Size []int8 }
PlainType ==
    StructOf(<< Field(ServerName, Empty, TRUE, Scalar("string")),
                Field(SizeName, Empty, FALSE, SliceOf(Scalar("int8"))) >>)

\* struct { Port int8 `ini:",omitempty"`; Size []int8; Database plain;
\*          Servers []server }
ShapesType ==
    StructOf(<< Field(PortName, Empty, TRUE, Scalar("int8")),
                Field(SizeName, Empty, FALSE, SliceOf(Scalar("int8"))),
                Field(DatabaseName, Empty, FALSE, PlainType),
                Field(ServersName, Empty, FALSE, SliceOf(ServerType)) >>)

ShapesValues ==
    { << p, z, << s, dz >>, sv >> :
        p \in Int8Values, z \in SeqsUpTo({0, 5}, MaxElems),
        s \in {Empty, <<"a">>}, dz \in SeqsUpTo({5}, MaxElems),
        sv \in SeqsUpTo({ << n >> : n \in Int8Values }, MaxRecs) }

\* type named struct { ININame string; Port int8 } and struct { Database named }
NamedType ==
    StructOf(<< Field(DatabaseName, Empty, FALSE,
                  StructOf(<< Field(ININame, Empty, FALSE, Scalar("string")),
                              Field(PortName, Empty, FALSE, Scalar("int8")) >>)) >>)

NamedValues == { << << n, p >> >> : n \in {Empty, <<"a">>}, p \in Int8Values }

\* the records Marshal is handed, with their types
Records ==
    { [type |-> TestType, val |-> v] : v \in TestValues }
    \cup { [type |-> ShapesType, val |-> v] : v \in ShapesValues }
    \cup { [type |-> NamedType, val |-> v] : v \in NamedValues }

InitRT ==
    /\ tree = NewTree
    /\ cur = <<0, 0>>
    /\ nlines = 0
    /\ pc = "marshal"
    /\ \E r \in Records :
          /\ rv = [kind |-> "ptr", isnil |-> FALSE, type |-> r.type, fresh |-> TRUE]
          /\ src = r.val
    /\ dest = <<>>
    /\ orig = <<>>
    /\ idx = 0
    /\ err = ""
    /\ fail = NoFail
    /\ text = <<>>

\* Marshal(src)
MarshalRecord ==
    /\ pc = "marshal"
    /\ text' = Marshal(rv.type, src)
    /\ pc' = "text"
    /\ UNCHANGED <<tree, cur, nlines, rv, dest, orig, idx, err, fail, src>>

\* Unmarshal after the parser returned p: a parse error is returned as it is,
\* otherwise decode binds the tree
TextParsed(p) ==
    /\ tree' = p.st.tree
    /\ IF p.ok THEN decodeEntry(p.st.tree, rv)
       ELSE /\ err' = "parse error"
            /\ pc' = "done"
            /\ UNCHANGED <<rv, dest, orig, idx, fail>>

\* Unmarshal(text, v) with v a fresh record of the type of src
UnmarshalText ==
    /\ pc = "text"
    /\ TextParsed(ParseText(text))
    /\ UNCHANGED <<cur, nlines, src, text>>

NextRT ==
    \/ MarshalRecord
    \/ UnmarshalText
    \/ DecodeSectionField
    \/ Return

SpecRT == InitRT /\ [][NextRT]_vars

\* ------------------------------------------------------------------ claims

\* Unmarshal was handed a pointer to a struct
ValidDest == rv.kind = "ptr" /\ ~rv.isnil /\ rv.type.kind = "struct"

Returned == pc = "done" /\ ValidDest

\* the type of the fields named Port
PortType == rv.type.fields[1].type

\* the plain (key=value) occurrences of Port in a section, in source order
PlainPort(s) == PropGet(SectionGet(s, PortName), Empty)

\* every section instance of the tree, in tree order
AllSections == Concat(tree.sections)

\* the integer a raw value converts to in an int8 element
Int8Of(raw) == decodeInt(raw, Scalar("int8"), 0).val

Accumulated(s, f) ==
    Len(PlainPort(s)) >= 1 =>
        /\ Len(f) = Len(PlainPort(s))
        /\ \A i \in 1..Len(f) : f[i] = Int8Of(PlainPort(s)[i])

\* C3: after a successful decode, a []int8 field named Port holds one element
\* per plain occurrence of Port in the section bound to its record (the global
\* scope, the first [Database] section, each [Servers] section, one record per
\* such section), in source order, each the conversion of that occurrence.
C3_Accumulation ==
    (Returned /\ err = "nil" /\ PortType = SliceOf(Scalar("int8"))) =>
        /\ Accumulated(tree.global, dest[1])
        /\ Len(TreeGet(tree, DatabaseName)) > 0 =>
              Accumulated(TreeGet(tree, DatabaseName)[1], dest[2][2])
        /\ Len(TreeGet(tree, ServersName)) > 0 =>
              Len(dest[3]) = Len(TreeGet(tree, ServersName))
        /\ \A k \in 1..Len(TreeGet(tree, ServersName)) :
              Accumulated(TreeGet(tree, ServersName)[k], dest[3][k][2])

\* a [Database] section with Port=1 and Port=300 was bound to two elements
C3_Witness ==
    /\ Returned /\ err = "nil" /\ PortType = SliceOf(Scalar("int8"))
    /\ Len(TreeGet(tree, DatabaseName)) > 0
    /\ Len(PlainPort(TreeGet(tree, DatabaseName)[1])) = 2
    /\ Len(dest[2][2]) = 2
    /\ dest[2][2][1] # dest[2][2][2]

\* a key occurs twice in a section bound to a scalar field, or a section name
\* occurs twice and is bound to a single nested record
DuplicateIntoNonSlice ==
    \/ /\ IsScalarKind(PortType.kind)
       /\ \/ Len(PlainPort(tree.global)) >= 2
          \/ /\ Len(TreeGet(tree, DatabaseName)) > 0
             /\ Len(PlainPort(TreeGet(tree, DatabaseName)[1])) >= 2
    \/ Len(TreeGet(tree, DatabaseName)) >= 2

\* C4: when decode returns and a duplicate key or section met a destination
\* field that is no slice, it returned an error.
C4_DuplicateIsError ==
    (Returned /\ err # "panic" /\ DuplicateIntoNonSlice) => err = "UnmarshalTypeError"

\* the wildcard field holds one element per section, in tree order, each with
\* the section's name in ININame
WildcardBound ==
    /\ Len(dest[4]) = Len(AllSections)
    /\ \A k \in 1..Len(dest[4]) : dest[4][k][1] = AllSections[k].name

\* C5 as written: every successful decode sets the wildcard field to one
\* element per section of the tree.
C5_Original == (Returned /\ err = "nil") => WildcardBound

\* C5: a successful decode of a tree with at least one section sets the wildcard
\* field to one element per section instance, in tree order, ININame holding the
\* section's name; with no section in the tree the field is left as it was.
C5_Wildcard ==
    (Returned /\ err = "nil") =>
        IF Len(AllSections) > 0 THEN WildcardBound ELSE dest[4] = orig[4]

\* three sections of two names were bound to three elements
C5_Witness ==
    /\ Returned /\ err = "nil"
    /\ Len(AllSections) = 3
    /\ Len(dest[4]) = 3
    /\ dest[4][1][1] # dest[4][3][1]
    /\ dest[4] # orig[4]

\* C6: when the global scope holds no plain value for a scalar field Port
\* (no property, or only map-keyed values), decode does not stop at that field
\* and leaves it as it was.
C6_AbsentScalarUntouched ==
    (Returned /\ IsScalarKind(PortType.kind) /\ Len(PlainPort(tree.global)) = 0) =>
        /\ ~(fail.pass = "global" /\ fail.top = 1)
        /\ dest[1] = orig[1]

\* C7: a destination that is nil, no pointer, or a pointer to something that is
\* no struct makes Unmarshal return an UnmarshalTypeError.
C7_InvalidDestIsTypeError ==
    (pc = "done" /\ ~ValidDest) => err = "UnmarshalTypeError"

\* every raw value of the property converts to the map's element type
MapConvertible(p) ==
    \A k \in 1..Len(p.vals) :
        PortType.elem.kind \in IntKinds => ParseInt(p.vals[k].vs[1]).ok

\* the map a property binds to: one entry per map key, the first value converted
\* for a scalar element type, every value for a slice element type
MapBound(p, f) ==
    /\ ~f.isnil
    /\ DOMAIN f.kv = { p.vals[k].key : k \in 1..Len(p.vals) }
    /\ \A k \in 1..Len(p.vals) :
          f.kv[p.vals[k].key] =
              IF PortType.elem.kind = "slice" THEN p.vals[k].vs
              ELSE Int8Of(p.vals[k].vs[1])

\* C8: a global property Port whose values convert is bound into a map field
\* without error, one entry per map key.
C8_MapBinding ==
    (Returned /\ err # "panic" /\ PortType.kind = "map"
       /\ Len(SectionGet(tree.global, PortName).vals) > 0
       /\ MapConvertible(SectionGet(tree.global, PortName))) =>
        /\ ~(fail.pass = "global" /\ fail.top = 1)
        /\ MapBound(SectionGet(tree.global, PortName), dest[1])

\* the text is base-10 integer text denoting a number the kind can hold
FitsKind(raw, k) ==
    /\ ParseInt(raw).ok
    /\ IF k \in UintKinds
       THEN ParseInt(raw).n >= 0 /\ (Bits(k) < 32 => ParseInt(raw).n < Pow2(Bits(k)))
       ELSE Bits(k) < 32 =>
              /\ ParseInt(raw).n >= 0 - Pow2(Bits(k) - 1)
              /\ ParseInt(raw).n < Pow2(Bits(k) - 1)

\* C9: an integer field Port is set from the global property only when the text
\* fits the field's type, and then holds the number the text denotes.
C9_IntegerRange ==
    (Returned /\ err # "panic" /\ (PortType.kind \in IntKinds \cup UintKinds)
       /\ Len(PlainPort(tree.global)) > 0) =>
        IF FitsKind(PlainPort(tree.global)[1], PortType.kind)
        THEN fail.pass # "global" => dest[1] = ParseInt(PlainPort(tree.global)[1]).n
        ELSE fail = [pass |-> "global", top |-> 1, inner |-> 0]

\* the top-level fields decode's loop binds (the others are bound with the
\* global properties)
InSectionPass(j) ==
    \/ rv.type.fields[j].type.kind = "struct"
    \/ /\ rv.type.fields[j].type.kind = "slice"
       /\ rv.type.fields[j].type.elem.kind = "struct"

\* C10: when decode returns an error, the field at which binding stopped holds
\* what it held before the call, and so does every field after it in processing
\* order: the later fields of the same record, and the top-level fields bound
\* later (global properties first, then the loop over the sections).
C10_NoPartialApplication ==
    (Returned /\ err = "UnmarshalTypeError") =>
        /\ fail.inner = 0 => dest[fail.top] = orig[fail.top]
        /\ fail.inner > 0 =>
              \A j \in fail.inner..Len(dest[fail.top]) :
                  dest[fail.top][j] = orig[fail.top][j]
        /\ \A j \in 1..Len(dest) :
              (/\ j # fail.top
               /\ \/ fail.pass = "global" /\ (j > fail.top \/ InSectionPass(j))
                  \/ fail.pass = "section" /\ j > fail.top /\ InSectionPass(j))
              => dest[j] = orig[j]

\* the second [Servers] section failed to convert after the first one converted,
\* and after the global properties had been bound
C10_Witness ==
    /\ Returned /\ err = "UnmarshalTypeError"
    /\ fail = [pass |-> "section", top |-> 3, inner |-> 0]
    /\ Len(TreeGet(tree, ServersName)) >= 2
    /\ decodeStruct(TreeGet(tree, ServersName)[1], rv.type.fields[3].type.elem,
                    Zero(rv.type.fields[3].type.elem)).st = "ok"
    /\ dest[3] = orig[3]
    /\ ~rv.fresh

\* a nested record of the type has an origin-name field
HasOriginName(t) ==
    \E k \in 1..Len(t.fields) :
        \/ /\ t.fields[k].type.kind = "struct"
           /\ OriginField(t.fields[k].type) > 0
        \/ /\ t.fields[k].type.kind = "slice"
           /\ t.fields[k].type.elem.kind = "struct"
           /\ OriginField(t.fields[k].type.elem) > 0

TestLine(k, d) ==
    TestDatabase.fields[k].name \o <<"=">> \o encodeScalar(TestDatabase.fields[k].type, d[k])

\* the header line, then one line per field in declared order
TestLines(d) ==
    << <<"[">> \o DatabaseName \o <<"]">> >> \o [k \in 1..Len(TestDatabase.fields) |-> TestLine(k, d)]

\* C2: Marshal of a record whose only field is a nested record of a string, an
\* int, a bool, a uint and a float64 returns the header line [Database] and one
\* Name=value line per field in declared order, zero values included, joined by
\* single newlines with none after the last; for TestMarshal's input that is the
\* text the test wants.
C2_MarshalText ==
    (pc # "marshal" /\ rv.type = TestType) =>
        /\ text = Join(TestLines(src[1]))
        /\ Len(SplitLines(text)) = 1 + Len(TestDatabase.fields)
        /\ text[Len(text)] # "\n"
        /\ src = TestInput => text = TestWant

\* Marshal returned the text TestMarshal wants, Encrypted=false included
C2_Witness ==
    /\ pc = "text"
    /\ rv.type = TestType
    /\ src = TestInput
    /\ src[1][3] = FALSE
    /\ text = TestWant

====
